---- MODULE Spec2Model ----
(***************************************************************************)
(* Model of torch_xla/amp/syncfree/adam.py (the sync-free Adam optimizer   *)
(* with the fused found_inf skip flag) and of                              *)
(* hopper/test/scripts/launch_benchmarks.py (the benchmark sweep driver).  *)
(*                                                                         *)
(* Tensor elements and Python floats are finite-precision numbers.  They   *)
(* are modelled as fixed-point numbers with FracBits fractional bits,      *)
(* every arithmetic operation rounding its exact result to the nearest     *)
(* representable value, together with the IEEE special values NaN and      *)
(* +/-Inf that a division by zero produces.  Every parameter is a          *)
(* one-element tensor: all tensor operations of adam_step_py are           *)
(* elementwise.                                                            *)
(*                                                                         *)
(* adam_step_py stops in pdb.set_trace() once per parameter (line 177);    *)
(* the model is of the runs in which the debugger is told to continue.     *)
(***************************************************************************)
EXTENDS Integers, Sequences, FiniteSets, TLC

\* ------------------------------------------------------------------------
\* Bounds of the model
\* ------------------------------------------------------------------------
FracBits == 4
MaxCalls == 3
MaxErrCalls == 2

Scale == 2 ^ FracBits

\* ------------------------------------------------------------------------
\* Finite-precision arithmetic
\* ------------------------------------------------------------------------
Fin(n) == [kind |-> "fin", v |-> n]
NaN == [kind |-> "nan", v |-> 0]
Inf(s) == [kind |-> "inf", v |-> s]

IsNaN(a) == a.kind = "nan"
IsInf(a) == a.kind = "inf"
IsFin(a) == a.kind = "fin"

Abs(n) == IF n < 0 THEN 0 - n ELSE n
Sgn(n) == IF n < 0 THEN 0 - 1 ELSE IF n > 0 THEN 1 ELSE 0

\* n / d for d > 0, rounded to the nearest integer, halves away from zero
RoundDiv(n, d) == Sgn(n) * ((2 * Abs(n) + d) \div (2 * d))

\* the sign a division or product sees; a zero operand counts as positive
SgnOf(a) == IF a.v < 0 THEN 0 - 1 ELSE 1

One == Fin(Scale)
Zero == Fin(0)

FNeg(a) == IF IsNaN(a) THEN NaN ELSE [kind |-> a.kind, v |-> 0 - a.v]

FAdd(a, b) ==
    IF IsNaN(a) \/ IsNaN(b) THEN NaN
    ELSE IF IsInf(a) /\ IsInf(b) THEN (IF a.v = b.v THEN a ELSE NaN)
    ELSE IF IsInf(a) THEN a
    ELSE IF IsInf(b) THEN b
    ELSE Fin(a.v + b.v)

FSub(a, b) == FAdd(a, FNeg(b))

FMul(a, b) ==
    IF IsNaN(a) \/ IsNaN(b) THEN NaN
    ELSE IF IsInf(a) \/ IsInf(b)
         THEN (IF a.v = 0 \/ b.v = 0 THEN NaN ELSE Inf(SgnOf(a) * SgnOf(b)))
    ELSE Fin(RoundDiv(a.v * b.v, Scale))

FDiv(a, b) ==
    IF IsNaN(a) \/ IsNaN(b) THEN NaN
    ELSE IF IsInf(a) THEN (IF IsInf(b) THEN NaN ELSE Inf(SgnOf(a) * SgnOf(b)))
    ELSE IF IsInf(b) THEN Zero
    ELSE IF b.v = 0 THEN (IF a.v = 0 THEN NaN ELSE Inf(SgnOf(a)))
    ELSE Fin(SgnOf(b) * RoundDiv(a.v * Scale, Abs(b.v)))

\* the integer nearest to the square root of n >= 0
ISqrt(n) ==
    LET r == CHOOSE k \in 0..(n + 1) : k * k <= n /\ (k + 1) * (k + 1) > n
    IN IF n - r * r > r THEN r + 1 ELSE r

FSqrt(a) ==
    IF IsNaN(a) THEN NaN
    ELSE IF IsInf(a) THEN (IF a.v > 0 THEN a ELSE NaN)
    ELSE IF a.v < 0 THEN NaN
    ELSE Fin(ISqrt(a.v * Scale))

\* a > b as IEEE compares: false when either side is NaN
FGt(a, b) ==
    IF IsNaN(a) \/ IsNaN(b) THEN FALSE
    ELSE IF IsInf(a) THEN (a.v > 0 /\ a # b)
    ELSE IF IsInf(b) THEN b.v < 0
    ELSE a.v > b.v

\* torch.maximum: elementwise maximum, a NaN operand gives NaN
FMax(a, b) ==
    IF IsNaN(a) \/ IsNaN(b) THEN NaN
    ELSE IF FGt(b, a) THEN b ELSE a

\* b ** t for a Python float b and an int t >= 0 (0.0 ** 0 is 1.0)
FPow(b, t) ==
    IF t = 0 THEN One
    ELSE Fin(RoundDiv(b.v ^ t, Scale ^ (t - 1)))

\* ------------------------------------------------------------------------
\* Inputs the model draws from
\* ------------------------------------------------------------------------
Half == Fin(Scale \div 2)
Quarter == Fin(Scale \div 4)
Ulp == Fin(1)
MinusOne == Fin(0 - Scale)
MinusHalf == Fin(0 - (Scale \div 2))
AlmostOne == Fin(Scale - 1)

\* constructor arguments, in range and out of range
LrArgs == {MinusOne, Zero, Quarter}
EpsArgs == {MinusOne, Zero, Ulp}
BetaArgs == {MinusOne, Zero, Half, AlmostOne, One}
WdArgs == {MinusOne, Zero, Half}

\* the params argument: the parameter groups, each a list of parameters
OneParam == << <<1>> >>
OneGroup == << <<1, 2>> >>
TwoGroups == << <<1>>, <<2>> >>

\* values of a parameter when the optimizer is built
InitialValues == {One}

\* p.grad of a parameter at a call: absent, sparse, or a dense value
NoGrad == [kind |-> "none", val |-> Zero]
SparseGrad == [kind |-> "sparse", val |-> Zero]
Dense(x) == [kind |-> "dense", val |-> x]
GradValues == {MinusHalf, Zero, One}
DenseGrads == {Dense(x) : x \in GradValues}

\* found_inf: the number of dimensions of the tensor and its truth value
Scalar(b) == [ndim |-> 0, val |-> b]
NonScalar(n) == [ndim |-> n, val |-> FALSE]

ParamIds(groups) == UNION {{groups[g][i] : i \in 1..Len(groups[g])} : g \in 1..Len(groups)}

\* ------------------------------------------------------------------------
\* State
\* ------------------------------------------------------------------------
VARIABLES
    ctor,           \* the constructor call: its arguments and how it ended
    param_groups,   \* self.param_groups
    param,          \* the value of each parameter tensor
    state,          \* self.state: the per-parameter state records
    calls,          \* number of step calls made
    closure_calls,  \* number of times a closure was invoked
    call,           \* the last step call: its arguments and how it ended
    before,         \* param, state and closure_calls when the last call began
    trace,          \* the locals of adam_step_py in the last call, per parameter
    tally           \* history: how many calls had found_inf set, and unset, and for
                    \* each parameter how many calls returned that had found_inf
                    \* unset and found a gradient attached to it

optimizer == <<ctor, param_groups, param, state, calls, closure_calls, call, before,
               trace, tally>>

VARIABLES
    loop,           \* the sweep's position: indices into models, sequence_lengths
                    \* and batch_sizes, and whether the loops have ended
    aggregate,      \* the (model, seq_len, batch_size) of every Aggregate row printed
    row             \* the last iteration: both outputs and the latencies printed

sweep == <<loop, aggregate, row>>

vars == <<optimizer, sweep>>

\* self.state[p] before the lazy initialisation: an empty dict
NoState ==
    [keys |-> {}, step |-> 0, exp_avg |-> Zero, exp_avg_sq |-> Zero,
     max_exp_avg_sq |-> Zero]

NoTrace ==
    [seen |-> FALSE, step |-> 0, bias_correction1 |-> Zero, bias_correction2 |-> Zero,
     grad |-> Zero, denom |-> Zero, step_size |-> Zero]

NoCall ==
    [op |-> "none", found_inf |-> [ndim |-> 0, val |-> FALSE], closure |-> FALSE,
     grads |-> <<>>, result |-> "none"]

\* ------------------------------------------------------------------------
\* Adam.__init__
\* ------------------------------------------------------------------------
\* mutant: the betas are checked against [0, 1] instead of [0, 1)
CheckArgsBetaInclusive(lr, beta1, beta2, eps, weight_decay) ==
    IF ~(0 <= lr.v) THEN "ValueError"
    ELSE IF ~(0 <= eps.v) THEN "ValueError"
    ELSE IF ~(0 <= beta1.v /\ beta1.v <= Scale) THEN "ValueError"
    ELSE IF ~(0 <= beta2.v /\ beta2.v <= Scale) THEN "ValueError"
    ELSE IF ~(0 <= weight_decay.v) THEN "ValueError"
    ELSE "ok"

\* the argument checks, in the order of the code; "ok" when none raises
CheckArgs(lr, beta1, beta2, eps, weight_decay) ==
    IF ~(0 <= lr.v) THEN "ValueError"
    ELSE IF ~(0 <= eps.v) THEN "ValueError"
    ELSE IF ~(0 <= beta1.v /\ beta1.v < Scale) THEN "ValueError"
    ELSE IF ~(0 <= beta2.v /\ beta2.v < Scale) THEN "ValueError"
    ELSE IF ~(0 <= weight_decay.v) THEN "ValueError"
    ELSE "ok"

\* Optimizer.__init__: every group is given the defaults
MakeGroups(params, defaults) ==
    [g \in 1..Len(params) |->
        [params |-> params[g], lr |-> defaults.lr, beta1 |-> defaults.beta1,
         beta2 |-> defaults.beta2, eps |-> defaults.eps,
         weight_decay |-> defaults.weight_decay, amsgrad |-> defaults.amsgrad]]

Construct(params, values, lr, beta1, beta2, eps, weight_decay, amsgrad) ==
    LET args == [params |-> params, values |-> values, lr |-> lr, beta1 |-> beta1, beta2 |-> beta2,
                 eps |-> eps, weight_decay |-> weight_decay, amsgrad |-> amsgrad]
        res == CheckArgs(lr, beta1, beta2, eps, weight_decay)
    IN /\ ctor.result = "none"
       /\ ctor' = [result |-> res, args |-> args]
       /\ param' = values
       /\ IF res = "ok"
          THEN /\ param_groups' = MakeGroups(params, args)
               /\ state' = [p \in ParamIds(params) |-> NoState]
               /\ trace' = [p \in ParamIds(params) |-> NoTrace]
          ELSE /\ param_groups' = <<>>
               /\ state' = <<>>
               /\ trace' = <<>>
       /\ tally' = [set |-> 0, unset |-> 0, due |-> [p \in ParamIds(params) |-> 0]]
       /\ UNCHANGED <<calls, closure_calls, call, before>>
       /\ UNCHANGED sweep

\* ------------------------------------------------------------------------
\* Adam.adam_step_py: the update of one parameter
\* ------------------------------------------------------------------------
\* 1 - beta ** step
BiasCorrection(beta, step) == FSub(One, FPow(beta, step))

\* the gradient the moments see: weight decay folded in unless found_inf
DecayedGrad(grad, p, weight_decay, found_inf) ==
    IF weight_decay.v # 0
    THEN (IF found_inf THEN grad ELSE FAdd(grad, FMul(weight_decay, p)))
    ELSE grad

\* mutant: the first moment is updated whatever found_inf says
NextExpAvgAlways(exp_avg, grad, beta1, found_inf) ==
    FAdd(FMul(exp_avg, beta1), FMul(FSub(One, beta1), grad))

\* exp_avg.mul_(beta1).add_(grad, alpha=1 - beta1), unless found_inf
NextExpAvg(exp_avg, grad, beta1, found_inf) ==
    IF ~found_inf
    THEN FAdd(FMul(exp_avg, beta1), FMul(FSub(One, beta1), grad))
    ELSE exp_avg

\* exp_avg_sq.mul_(beta2).addcmul_(grad, grad.conj(), value=1 - beta2), unless found_inf
NextExpAvgSq(exp_avg_sq, grad, beta2, found_inf) ==
    IF ~found_inf
    THEN FAdd(FMul(exp_avg_sq, beta2), FMul(FSub(One, beta2), FMul(grad, grad)))
    ELSE exp_avg_sq

\* mutant: the max is overwritten by the current second moment
NextMaxExpAvgSqOverwritten(max_exp_avg_sq, exp_avg_sq, amsgrad) ==
    IF amsgrad THEN exp_avg_sq ELSE max_exp_avg_sq

\* torch.maximum(max_exp_avg_sqs[i], exp_avg_sq, out=max_exp_avg_sqs[i]) when amsgrad
NextMaxExpAvgSq(max_exp_avg_sq, exp_avg_sq, amsgrad) ==
    IF amsgrad THEN FMax(max_exp_avg_sq, exp_avg_sq) ELSE max_exp_avg_sq

\* denom: from the max when amsgrad, else from exp_avg_sq; all ones when step is 0
Denom(max_exp_avg_sq, exp_avg_sq, amsgrad, step, bias_correction2, eps) ==
    LET second == IF amsgrad THEN max_exp_avg_sq ELSE exp_avg_sq
    IN IF step # 0
       THEN FAdd(FDiv(FSqrt(second), FSqrt(bias_correction2)), eps)
       ELSE One

\* mutant: the first recorded step is treated as the guard case too
StepSizeAfterFirst(lr, step, bias_correction1) ==
    IF step > 1 THEN FDiv(lr, bias_correction1) ELSE Zero

\* step_size: lr / bias_correction1, 0 when step is 0
StepSize(lr, step, bias_correction1) ==
    IF step # 0 THEN FDiv(lr, bias_correction1) ELSE Zero

\* mutant: addcdiv_ without value=-step_size, the quotient subtracted unscaled
NextParamUnscaled(p, exp_avg, denom, step_size, found_inf) ==
    IF ~found_inf
    THEN FSub(p, FDiv(exp_avg, denom))
    ELSE FAdd(p, Zero)

\* param.addcdiv_(exp_avg, denom, value=-step_size), or param.add_(zeros) on found_inf
NextParam(p, exp_avg, denom, step_size, found_inf) ==
    IF ~found_inf
    THEN FAdd(p, FMul(FNeg(step_size), FDiv(exp_avg, denom)))
    ELSE FAdd(p, Zero)

\* one iteration of the loop of adam_step_py, for a parameter of value p with
\* state record s, gradient grad and the step count recorded for it
UpdateParam(p, s, grad, step, group, found_inf) ==
    LET bc1 == BiasCorrection(group.beta1, step)
        bc2 == BiasCorrection(group.beta2, step)
        g == DecayedGrad(grad, p, group.weight_decay, found_inf)
        m == NextExpAvg(s.exp_avg, g, group.beta1, found_inf)
        v == NextExpAvgSq(s.exp_avg_sq, g, group.beta2, found_inf)
        vmax == NextMaxExpAvgSq(s.max_exp_avg_sq, v, group.amsgrad)
        denom == Denom(vmax, v, group.amsgrad, step, bc2, group.eps)
        step_size == StepSize(group.lr, step, bc1)
    IN [param |-> NextParam(p, m, denom, step_size, found_inf),
        state |-> [s EXCEPT !.exp_avg = m, !.exp_avg_sq = v, !.max_exp_avg_sq = vmax],
        trace |-> [seen |-> TRUE, step |-> step, bias_correction1 |-> bc1,
                   bias_correction2 |-> bc2, grad |-> g, denom |-> denom,
                   step_size |-> step_size]]

\* the whole loop over params_with_grad; W holds param, state and trace
RECURSIVE AdamStepPy(_, _, _, _, _, _)
AdamStepPy(W, params_with_grad, state_steps, grads, group, found_inf) ==
    IF params_with_grad = <<>> THEN W
    ELSE LET p == Head(params_with_grad)
             u == UpdateParam(W.param[p], W.state[p], grads[p].val, Head(state_steps),
                              group, found_inf)
         IN AdamStepPy([W EXCEPT !.param[p] = u.param, !.state[p] = u.state,
                                 !.trace[p] = u.trace],
                       Tail(params_with_grad), Tail(state_steps), grads, group, found_inf)

\* ------------------------------------------------------------------------
\* Adam.step
\* ------------------------------------------------------------------------
\* the lazy state initialisation
InitState(amsgrad) ==
    [NoState EXCEPT !.keys = {"step", "exp_avg", "exp_avg_sq"}
                            \cup (IF amsgrad THEN {"max_exp_avg_sq"} ELSE {})]

\* mutant: the test of found_inf is inverted
GatheredInverted(s, amsgrad, found_inf) ==
    LET s1 == IF s.keys = {} THEN InitState(amsgrad) ELSE s
    IN IF found_inf THEN [s1 EXCEPT !.step = s1.step + 1] ELSE s1

\* the state record of a parameter with a dense gradient after the first loop:
\* created if empty, its step incremented unless found_inf
Gathered(s, amsgrad, found_inf) ==
    LET s1 == IF s.keys = {} THEN InitState(amsgrad) ELSE s
    IN IF ~found_inf THEN [s1 EXCEPT !.step = s1.step + 1] ELSE s1

\* the first loop over group['params'], from the i-th parameter on; G holds state,
\* params_with_grad, state_steps and the error raised, if any
RECURSIVE Gather(_, _, _, _, _)
Gather(G, group, i, grads, found_inf) ==
    IF i > Len(group.params) THEN G
    ELSE LET p == group.params[i]
         IN IF grads[p].kind = "none" THEN Gather(G, group, i + 1, grads, found_inf)
            ELSE IF grads[p].kind = "sparse"
                 THEN [G EXCEPT !.params_with_grad = Append(@, p), !.error = "RuntimeError"]
            ELSE LET s == Gathered(G.state[p], group.amsgrad, found_inf)
                 IN Gather([G EXCEPT !.state[p] = s,
                                     !.params_with_grad = Append(@, p),
                                     !.state_steps = Append(@, s.step)],
                           group, i + 1, grads, found_inf)

\* the loop over self.param_groups, from the g-th group on; W holds param, state,
\* trace and the error raised, if any
RECURSIVE StepGroups(_, _, _, _, _)
StepGroups(W, groups, g, grads, found_inf) ==
    IF g > Len(groups) THEN W
    ELSE LET G == Gather([state |-> W.state, params_with_grad |-> <<>>,
                          state_steps |-> <<>>, error |-> "none"],
                         groups[g], 1, grads, found_inf)
         IN IF G.error # "none"
            THEN [W EXCEPT !.state = G.state, !.error = G.error]
            ELSE StepGroups(AdamStepPy([W EXCEPT !.state = G.state], G.params_with_grad,
                                       G.state_steps, grads, groups[g], found_inf),
                            groups, g + 1, grads, found_inf)

\* mutant: only a found_inf of two or more dimensions is rejected
ShapeErrorLoose(found_inf) == found_inf.ndim > 1

\* the shape check on found_inf
ShapeError(found_inf) == found_inf.ndim # 0

\* whether the call gets as far as invoking the closure
ClosureRuns(closure, found_inf) == closure /\ ~ShapeError(found_inf)

\* the history after a call
Tallied(t, found_inf, grads, error) ==
    IF ShapeError(found_inf) THEN t
    ELSE IF found_inf.val THEN [t EXCEPT !.set = @ + 1]
    ELSE [set |-> t.set, unset |-> t.unset + 1,
          due |-> [p \in DOMAIN t.due |->
                    IF error = "none" /\ grads[p].kind # "none"
                    THEN t.due[p] + 1 ELSE t.due[p]]]

\* step(closure, found_inf) with the gradients the parameters carry
Step(closure, found_inf, grads) ==
    /\ ctor.result = "ok"
    /\ calls' = calls + 1
    /\ before' = [param |-> param, state |-> state, closure_calls |-> closure_calls]
    /\ UNCHANGED <<ctor, param_groups>>
    /\ UNCHANGED sweep
    /\ IF ShapeError(found_inf)
       THEN /\ call' = [op |-> "step", found_inf |-> found_inf, closure |-> closure,
                        grads |-> grads, result |-> "ValueError"]
            /\ trace' = [p \in DOMAIN param |-> NoTrace]
            /\ tally' = Tallied(tally, found_inf, grads, "ValueError")
            /\ UNCHANGED <<param, state, closure_calls>>
       ELSE LET W == StepGroups([param |-> param, state |-> state,
                                 trace |-> [p \in DOMAIN param |-> NoTrace],
                                 error |-> "none"],
                                param_groups, 1, grads, found_inf.val)
            IN /\ closure_calls' = IF ClosureRuns(closure, found_inf)
                                   THEN closure_calls + 1 ELSE closure_calls
               /\ tally' = Tallied(tally, found_inf, grads, W.error)
               /\ param' = W.param
               /\ state' = W.state
               /\ trace' = W.trace
               /\ call' = [op |-> "step", found_inf |-> found_inf, closure |-> closure,
                           grads |-> grads,
                           result |-> IF W.error = "none" THEN "ok" ELSE W.error]

\* ------------------------------------------------------------------------
\* launch_benchmarks.py
\* ------------------------------------------------------------------------
\* Text is a sequence of characters.
Whitespace == {" ", "\t", "\n", "\r"}
ResultsPrefix == <<"R", "e", "s", "u", "l", "t", "s", ":", " ">>
NotAvailable == <<"N", "/", "A">>

\* the arguments of the sweep
Models == <<"bert-base-uncased", "gpt2">>
SequenceLengths == <<128, 512>>
BatchSizes == <<1, 2>>

\* the index after the longest run of non-whitespace characters from i on
RECURSIVE TokenEnd(_, _)
TokenEnd(s, i) ==
    IF i <= Len(s) /\ s[i] \notin Whitespace THEN TokenEnd(s, i + 1) ELSE i

\* \S+ followed by a space, k - 1 more times, then \S+ followed by a newline,
\* from index i on: the index of the newline, or 0 when it does not match
RECURSIVE MatchTokens(_, _, _)
MatchTokens(s, i, k) ==
    LET e == TokenEnd(s, i)
    IN IF e = i \/ e > Len(s) THEN 0
       ELSE IF k = 1 THEN (IF s[e] = "\n" THEN e ELSE 0)
       ELSE IF s[e] = " " THEN MatchTokens(s, e + 1, k - 1)
       ELSE 0

\* the pattern "Results: \S+ \S+ \S+ \S+ \S+\n" at index i: the index of its
\* last character, or 0 when it does not match there
MatchAt(s, i) ==
    IF i + Len(ResultsPrefix) - 1 <= Len(s)
       /\ SubSeq(s, i, i + Len(ResultsPrefix) - 1) = ResultsPrefix
    THEN MatchTokens(s, i + Len(ResultsPrefix), 5)
    ELSE 0

\* mutant: the rightmost match is taken
SearchRightmost(s) ==
    LET hits == {i \in 1..Len(s) : MatchAt(s, i) # 0}
    IN IF hits = {} THEN <<>>
       ELSE LET i == CHOOSE h \in hits : \A o \in hits : h >= o
            IN SubSeq(s, i, MatchAt(s, i))

\* re.search: the leftmost match, as match.group(0); <<>> when there is none
Search(s) ==
    LET hits == {i \in 1..Len(s) : MatchAt(s, i) # 0}
    IN IF hits = {} THEN <<>>
       ELSE LET i == CHOOSE h \in hits : \A o \in hits : h <= o
            IN SubSeq(s, i, MatchAt(s, i))

\* s.split(" ")[-1]: what follows the last space of s
RECURSIVE LastPiece(_)
LastPiece(s) ==
    IF s = <<>> THEN <<>>
    ELSE IF s[Len(s)] = " " THEN <<>>
    ELSE Append(LastPiece(SubSeq(s, 1, Len(s) - 1)), s[Len(s)])

\* s.strip()
RECURSIVE Strip(_)
Strip(s) ==
    IF s = <<>> THEN s
    ELSE IF s[1] \in Whitespace THEN Strip(Tail(s))
    ELSE IF s[Len(s)] \in Whitespace THEN Strip(SubSeq(s, 1, Len(s) - 1))
    ELSE s

\* the latency reported for the output of one run
Latency(out) ==
    LET match == Search(out)
    IN IF match # <<>> THEN Strip(LastPiece(match)) ELSE NotAvailable

\* the Aggregate row: the identifiers, then the xla latency, then the native one
AggregateRow(model, seq_len, batch_size, xla_latency, native_latency) ==
    <<model, seq_len, batch_size, xla_latency, native_latency>>

\* the three nested for loops, advanced by one iteration of the innermost
Advance(l) ==
    IF l.batch < Len(BatchSizes) THEN [l EXCEPT !.batch = @ + 1]
    ELSE IF l.seq < Len(SequenceLengths) THEN [l EXCEPT !.seq = @ + 1, !.batch = 1]
    ELSE IF l.model < Len(Models) THEN [l EXCEPT !.model = @ + 1, !.seq = 1, !.batch = 1]
    ELSE [l EXCEPT !.done = TRUE]

\* one iteration of the innermost loop: both runs, given what they print
Iterate(xla_out, native_out) ==
    /\ ~loop.done
    /\ LET model == Models[loop.model]
           seq_len == SequenceLengths[loop.seq]
           batch_size == BatchSizes[loop.batch]
       IN /\ row' = [xla_out |-> xla_out, native_out |-> native_out,
                     printed |-> AggregateRow(model, seq_len, batch_size,
                                              Latency(xla_out), Latency(native_out))]
          /\ aggregate' = Append(aggregate, <<model, seq_len, batch_size>>)
    /\ loop' = Advance(loop)
    /\ UNCHANGED optimizer

\* What a run may print.
Line(sep, end) ==
    ResultsPrefix \o <<"a", sep, "b", " ", "c", " ", "d", " ", "4", "2">> \o end
Outputs ==
    { <<>>,
      <<"E", "r", "r", "\n">>,
      Line(" ", <<"\n">>),
      Line(" ", <<>>),
      Line("\t", <<"\n">>),
      Line(" ", <<" ", "\n">>),
      Line(" ", <<" ", "7", "\n">>),
      <<"x", "\n">> \o Line(" ", <<"\n">>) \o <<"y", "\n">>,
      <<"x", " ">> \o Line(" ", <<"\n">>),
      ResultsPrefix \o <<"a", " ", "b", " ", "c", " ", "d", "\n">>,
      ResultsPrefix \o <<"a", " ", " ", "b", " ", "c", " ", "d", " ", "7", "\n">>,
      Line(" ", <<"\n">>) \o ResultsPrefix
          \o <<"a", " ", "b", " ", "c", " ", "d", " ", "7", "\n">>,
      Line("\t", <<"\n">>) \o ResultsPrefix
          \o <<"a", " ", "b", " ", "c", " ", "d", " ", "7", "\n">> }

\* ------------------------------------------------------------------------
\* Specifications
\* ------------------------------------------------------------------------
SweepInit ==
    /\ loop = [model |-> 1, seq |-> 1, batch |-> 1, done |-> FALSE]
    /\ aggregate = <<>>
    /\ row = [xla_out |-> <<>>, native_out |-> <<>>, printed |-> <<>>]

Init ==
    /\ ctor = [result |-> "none", args |-> <<>>]
    /\ param_groups = <<>>
    /\ param = <<>>
    /\ state = <<>>
    /\ calls = 0
    /\ closure_calls = 0
    /\ call = NoCall
    /\ before = [param |-> <<>>, state |-> <<>>, closure_calls |-> 0]
    /\ trace = <<>>
    /\ tally = [set |-> 0, unset |-> 0, due |-> <<>>]
    /\ SweepInit

\* The optimizer with one parameter: every combination of constructor arguments,
\* then calls with a scalar found_inf and every gradient value.
Next ==
    \/ \E lr \in LrArgs, beta1 \in BetaArgs, beta2 \in BetaArgs, eps \in EpsArgs,
          weight_decay \in WdArgs, amsgrad \in BOOLEAN :
          \E values \in [ParamIds(OneParam) -> InitialValues] :
             Construct(OneParam, values, lr, beta1, beta2, eps, weight_decay, amsgrad)
    \/ \E found_inf \in {Scalar(FALSE), Scalar(TRUE)} :
          \E grads \in [DOMAIN param -> {NoGrad} \cup DenseGrads] :
             /\ calls < MaxCalls
             /\ Step(FALSE, found_inf, grads)

Spec == Init /\ [][Next]_vars

\* The optimizer with two parameters, in one group or in two: calls with and
\* without a closure, a scalar or non-scalar found_inf, and absent, sparse and
\* dense gradients.
NextErr ==
    \/ \E params \in {OneGroup, TwoGroups}, amsgrad \in BOOLEAN :
          \E values \in [ParamIds(params) -> InitialValues] :
             Construct(params, values, Quarter, Half, Half, Ulp, Zero, amsgrad)
    \/ \E closure \in BOOLEAN, found_inf \in {Scalar(FALSE), Scalar(TRUE), NonScalar(1), NonScalar(2)} :
          \E grads \in [DOMAIN param -> {NoGrad, SparseGrad, Dense(Half)}] :
             /\ calls < MaxErrCalls
             /\ Step(closure, found_inf, grads)

SpecErr == Init /\ [][NextErr]_vars

\* The sweep: every pair of outputs at every iteration.
NextSweep ==
    \E xla_out \in Outputs, native_out \in Outputs : Iterate(xla_out, native_out)

SpecSweep == Init /\ [][NextSweep]_vars

\* ------------------------------------------------------------------------
\* Properties
\* ------------------------------------------------------------------------
Params == DOMAIN param
Stepped == call.op = "step"
Returned == Stepped /\ call.result = "ok"
Skipped == Stepped /\ call.found_inf.ndim = 0 /\ call.found_inf.val
Unskipped == Stepped /\ call.found_inf.ndim = 0 /\ ~call.found_inf.val
Hyper == ctor.args

\* the call was the first one to update parameter p with found_inf unset
FirstUpdate(p) ==
    /\ Returned /\ Unskipped
    /\ call.grads[p].kind = "dense"
    /\ before.state[p].step = 0

\* C1, as claimed: the first call with found_inf unset (step count 0 -> 1)
\* leaves the parameter value as it was.
C1_FirstUpdateIsNoOp ==
    \A p \in Params : FirstUpdate(p) => param[p] = before.param[p]

\* C1, amended: on the first call with found_inf unset the update sees step
\* count 1, not 0: it takes the step size lr / (1 - beta1), which is not zero
\* when lr > 0, and the denominator sqrt(v) / sqrt(1 - beta2) + eps rather than
\* the all-ones guard, the moments become (1 - beta1) g and (1 - beta2) g^2,
\* and the parameter becomes p - step_size * m / denom.
C1_FirstUpdateIsApplied ==
    \A p \in Params : FirstUpdate(p) =>
        LET g == trace[p].grad
            m == FMul(FSub(One, Hyper.beta1), g)
            v == FMul(FSub(One, Hyper.beta2), FMul(g, g))
            step_size == FDiv(Hyper.lr, FSub(One, Hyper.beta1))
            denom == FAdd(FDiv(FSqrt(v), FSqrt(FSub(One, Hyper.beta2))), Hyper.eps)
        IN /\ state[p].step = 1 /\ trace[p].step = 1
           /\ state[p].exp_avg = m
           /\ state[p].exp_avg_sq = v
           /\ trace[p].step_size = step_size
           /\ Hyper.lr.v > 0 => step_size.v > 0
           /\ trace[p].denom = denom
           /\ param[p] = FSub(before.param[p], FMul(step_size, FDiv(m, denom)))

\* a first update with a nonzero gradient that moved the parameter
C1_Witness ==
    \E p \in Params :
        /\ FirstUpdate(p)
        /\ call.grads[p].val = One /\ Hyper.weight_decay = Zero /\ ~Hyper.amsgrad
        /\ IsFin(param[p]) /\ param[p].v < before.param[p].v
        /\ state[p].exp_avg # Zero

\* C3: a call with found_inf set changes no parameter value, moment, max
\* moment or step count; while every call so far had found_inf set, the values
\* are those the optimizer was built with, the moments zero and the step count 0.
C3_SkipChangesNothing ==
    /\ Skipped =>
          \A p \in Params :
              /\ param[p] = before.param[p]
              /\ state[p].step = before.state[p].step
              /\ state[p].exp_avg = before.state[p].exp_avg
              /\ state[p].exp_avg_sq = before.state[p].exp_avg_sq
              /\ state[p].max_exp_avg_sq = before.state[p].max_exp_avg_sq
    /\ (Stepped /\ tally.unset = 0) =>
          \A p \in Params :
              /\ param[p] = Hyper.values[p]
              /\ state[p].step = 0
              /\ state[p].exp_avg = Zero /\ state[p].exp_avg_sq = Zero
              /\ state[p].max_exp_avg_sq = Zero

\* a skipped call, after an update, of a parameter with weight decay and amsgrad
C3_Witness ==
    \E p \in Params :
        /\ Skipped /\ trace[p].seen
        /\ before.state[p].step > 0 /\ before.state[p].exp_avg # Zero
        /\ Hyper.weight_decay # Zero /\ Hyper.amsgrad

\* C6: construction raises exactly when lr < 0, eps < 0, weight_decay < 0 or a
\* beta is outside [0, 1), and then registers no group and no state.
C6_ConstructionChecks ==
    ctor.result # "none" =>
        LET bad == \/ Hyper.lr.v < 0 \/ Hyper.eps.v < 0 \/ Hyper.weight_decay.v < 0
                   \/ Hyper.beta1.v < 0 \/ Hyper.beta1.v >= Scale
                   \/ Hyper.beta2.v < 0 \/ Hyper.beta2.v >= Scale
        IN /\ bad <=> ctor.result = "ValueError"
           /\ ~bad <=> ctor.result = "ok"
           /\ bad => param_groups = <<>> /\ state = <<>>
           /\ ~bad => Len(param_groups) = Len(Hyper.params)

\* a construction at the boundary values lr = eps = weight_decay = beta = 0
C6_Witness ==
    /\ ctor.result = "ok"
    /\ Hyper.lr = Zero /\ Hyper.eps = Zero /\ Hyper.weight_decay = Zero
    /\ Hyper.beta1 = Zero /\ Hyper.beta2 = Zero
    /\ Len(param_groups) = 1

\* the call updated parameter p, not for the first time, with a nonzero
\* gradient, found_inf never having been set
LaterUpdate(p) ==
    /\ Returned /\ Unskipped /\ tally.set = 0
    /\ call.grads[p].kind = "dense" /\ call.grads[p].val # Zero
    /\ before.state[p].step >= 1

\* C7, as claimed: with found_inf never set, every call after the first
\* changes the parameter when its gradient is nonzero.
C7_NonzeroGradMovesParam ==
    \A p \in Params : LaterUpdate(p) => param[p] # before.param[p]

\* C7, amended: with found_inf never set, a call after the first changes the
\* parameter only if lr > 0 and the updated first moment is nonzero, or the
\* denominator is zero (eps = 0 and a zero second moment: the division gives
\* NaN); with lr = 0 and a nonzero denominator the parameter is unchanged,
\* whatever the gradient.
C7_MoveNeedsLrAndMoment ==
    \A p \in Params : LaterUpdate(p) =>
        /\ param[p] # before.param[p] =>
              \/ Hyper.lr # Zero /\ state[p].exp_avg # Zero
              \/ trace[p].denom = Zero
        /\ (Hyper.lr = Zero /\ trace[p].denom # Zero) => param[p] = before.param[p]

\* a later update with a nonzero gradient and lr > 0 that left the parameter
\* where it was: the first moment cancelled to zero
C7_Witness ==
    \E p \in Params :
        /\ LaterUpdate(p)
        /\ Hyper.lr # Zero /\ state[p].exp_avg = Zero
        /\ param[p] = before.param[p]

\* a >= b as IEEE compares: false when either side is NaN
FGe(a, b) == ~IsNaN(a) /\ ~IsNaN(b) /\ ~FGt(b, a)

\* C9, as claimed: with amsgrad, after a call the max second moment of every
\* updated parameter is >= the second moment and >= its own value before the
\* call; a call with found_inf set leaves it as it was.
C9_MaxIsGreaterOrEqual ==
    \A p \in Params : (Stepped /\ Hyper.amsgrad /\ trace[p].seen) =>
        /\ FGe(state[p].max_exp_avg_sq, state[p].exp_avg_sq)
        /\ FGe(state[p].max_exp_avg_sq, before.state[p].max_exp_avg_sq)
        /\ Skipped => state[p].max_exp_avg_sq = before.state[p].max_exp_avg_sq

\* C9, amended: with amsgrad, after a call the max second moment of every
\* updated parameter is NaN, or is >= the second moment and >= its own value
\* before the call, neither of them NaN; a call with found_inf set leaves it
\* as it was.
C9_MaxIsGreaterOrEqualOrNaN ==
    \A p \in Params : (Stepped /\ Hyper.amsgrad /\ trace[p].seen) =>
        /\ \/ IsNaN(state[p].max_exp_avg_sq)
           \/ /\ FGe(state[p].max_exp_avg_sq, state[p].exp_avg_sq)
              /\ FGe(state[p].max_exp_avg_sq, before.state[p].max_exp_avg_sq)
        /\ Skipped => state[p].max_exp_avg_sq = before.state[p].max_exp_avg_sq

\* an update with amsgrad in which the second moment fell below its maximum
C9_Witness ==
    \E p \in Params :
        /\ Unskipped /\ Hyper.amsgrad /\ trace[p].seen
        /\ FGt(state[p].max_exp_avg_sq, state[p].exp_avg_sq)
        /\ state[p].max_exp_avg_sq = before.state[p].max_exp_avg_sq

\* C10: the update sees step count 0 only in a call with found_inf set; an
\* update with found_inf unset sees a step count >= 1 and takes the step size
\* lr / (1 - beta1^t), not the guard's 0; and at every step count >= 1 the
\* bias corrections 1 - beta1^t and 1 - beta2^t are > 0.
C10_GuardOnlyOnSkip ==
    \A p \in Params : (Stepped /\ trace[p].seen) =>
        /\ trace[p].step = 0 => Skipped
        /\ Unskipped =>
              /\ trace[p].step >= 1
              /\ trace[p].step_size = FDiv(Hyper.lr, trace[p].bias_correction1)
        /\ trace[p].step >= 1 =>
              /\ trace[p].bias_correction1.v > 0
              /\ trace[p].bias_correction2.v > 0

\* an applied update at step count 2 with both betas nonzero
C10_Witness ==
    \E p \in Params :
        /\ Unskipped /\ trace[p].seen /\ trace[p].step = 2
        /\ Hyper.beta1 = AlmostOne /\ Hyper.beta2 = Half
        /\ trace[p].bias_correction1.v < Scale

HasGrad(p) == call.grads[p].kind # "none"

\* C2, as claimed: a call that raises on a sparse gradient leaves every
\* parameter value and every state record as it was before the call.
C2_SparseErrorChangesNothing ==
    (Stepped /\ call.result = "RuntimeError") =>
        /\ param = before.param
        /\ state = before.state

C5_NonScalarRaisesFirst ==
    (Stepped /\ call.found_inf.ndim # 0) =>
        /\ call.result = "ValueError"
        /\ param = before.param
        /\ state = before.state
        /\ closure_calls = before.closure_calls
        /\ \A p \in Params : ~trace[p].seen

\* a non-scalar call with a closure and dense gradients, after an update
C5_Witness ==
    /\ Stepped /\ call.found_inf.ndim # 0 /\ call.closure
    /\ \A p \in Params : call.grads[p].kind = "dense" /\ before.state[p].step = 1

\* the text after the last space of s
AfterLastSpace(s) ==
    LET spaces == {k \in 1..Len(s) : s[k] = " "}
        last == IF spaces = {} THEN 0 ELSE CHOOSE k \in spaces : \A o \in spaces : k >= o
    IN SubSeq(s, last + 1, Len(s))

\* the whitespace-delimited tokens of s, in order
RECURSIVE Tokens(_)
Tokens(s) ==
    IF s = <<>> THEN <<>>
    ELSE IF s[1] \in Whitespace THEN Tokens(Tail(s))
    ELSE LET n == CHOOSE k \in 1..Len(s) :
                    /\ \A j \in 1..k : s[j] \notin Whitespace
                    /\ k = Len(s) \/ s[k + 1] \in Whitespace
         IN <<SubSeq(s, 1, n)>> \o Tokens(SubSeq(s, n + 1, Len(s)))

\* the lines of s, without their newlines
RECURSIVE Lines(_)
Lines(s) ==
    IF s = <<>> THEN <<>>
    ELSE LET ends == {k \in 1..Len(s) : s[k] = "\n"}
         IN IF ends = {} THEN <<s>>
            ELSE LET n == CHOOSE k \in ends : \A o \in ends : k <= o
                 IN <<SubSeq(s, 1, n - 1)>> \o Lines(SubSeq(s, n + 1, Len(s)))

\* the five tokens after "Results:" when the line holds "Results:" followed by
\* exactly five whitespace-delimited tokens, else <<>>
FiveTokens(line) ==
    LET at == {i \in 1..Len(line) :
                 /\ i + 7 <= Len(line)
                 /\ SubSeq(line, i, i + 7) = SubSeq(ResultsPrefix, 1, 8)
                 /\ Len(Tokens(SubSeq(line, i + 8, Len(line)))) = 5}
    IN IF at = {} THEN <<>>
       ELSE Tokens(SubSeq(line, (CHOOSE i \in at : \A o \in at : i <= o) + 8, Len(line)))

\* the latency C8 claims for an output: the last token of its first line of
\* the form "Results:" plus five whitespace-delimited tokens, else "N/A"
ClaimedLatency(out) ==
    LET lines == Lines(out)
        good == {k \in 1..Len(lines) : FiveTokens(lines[k]) # <<>>}
    IN IF good = {} THEN NotAvailable
       ELSE FiveTokens(lines[CHOOSE k \in good : \A o \in good : k <= o])[5]

\* out[i..j] is "Results: " followed by five runs of non-whitespace characters
\* separated by single spaces and ended by a newline at j
Occurs(out, i, j) ==
    /\ i + 8 <= Len(out) /\ SubSeq(out, i, i + 8) = ResultsPrefix
    /\ i + 9 <= j - 1 /\ j <= Len(out) /\ out[j] = "\n"
    /\ LET body == SubSeq(out, i + 9, j - 1)
       IN /\ \A k \in 1..Len(body) : body[k] \in Whitespace => body[k] = " "
          /\ Cardinality({k \in 1..Len(body) : body[k] = " "}) = 4
          /\ body[1] # " " /\ body[Len(body)] # " "
          /\ \A k \in 1..(Len(body) - 1) : ~(body[k] = " " /\ body[k + 1] = " ")

\* the fifth token of the leftmost such occurrence, else "N/A"
StrictLatency(out) ==
    LET at == {i \in 1..Len(out) : \E j \in 1..Len(out) : Occurs(out, i, j)}
    IN IF at = {} THEN NotAvailable
       ELSE LET i == CHOOSE h \in at : \A o \in at : h <= o
                j == CHOOSE e \in 1..Len(out) : Occurs(out, i, e)
            IN AfterLastSpace(SubSeq(out, i + 9, j - 1))

\* the (model, seq_len, batch_size) triples in nested iteration order
Triples ==
    [k \in 1..(Len(Models) * Len(SequenceLengths) * Len(BatchSizes)) |->
        <<Models[((k - 1) \div (Len(SequenceLengths) * Len(BatchSizes))) + 1],
          SequenceLengths[(((k - 1) \div Len(BatchSizes)) % Len(SequenceLengths)) + 1],
          BatchSizes[((k - 1) % Len(BatchSizes)) + 1]>>]

\* one row per triple so far, in nested order, and all of them at the end;
\* the last row holds its triple, then the xla latency, then the native one
RowsInOrder(xla_latency, native_latency) ==
    /\ Len(aggregate) <= Len(Triples)
    /\ aggregate = SubSeq(Triples, 1, Len(aggregate))
    /\ loop.done <=> Len(aggregate) = Len(Triples)
    /\ aggregate # <<>> =>
          row.printed = aggregate[Len(aggregate)] \o <<xla_latency, native_latency>>

\* C8, as claimed: each latency is the last token of the output's line of the
\* form "Results:" plus five whitespace-delimited tokens, "N/A" when there is
\* no such line; one row per triple in nested order, xla before native.
C8_LastTokenOfResultsLine ==
    RowsInOrder(ClaimedLatency(row.xla_out), ClaimedLatency(row.native_out))

\* C8, amended: each latency is the fifth token of the leftmost occurrence in
\* the output of "Results: " followed by five tokens separated by single
\* spaces and ended by a newline, "N/A" when there is no such occurrence (a
\* line with tabs, doubled or trailing spaces, or no final newline gives
\* "N/A"); one row per triple in nested order, xla before native.
C8_FifthTokenOfStrictMatch ==
    RowsInOrder(StrictLatency(row.xla_out), StrictLatency(row.native_out))

\* the sweep has ended, its last row made of an output with a match among
\* other lines and an output whose Results line lacks the final newline
C8_Witness ==
    /\ loop.done
    /\ row.xla_out = <<"x", "\n">> \o Line(" ", <<"\n">>) \o <<"y", "\n">>
    /\ row.native_out = Line(" ", <<>>)
    /\ row.printed[4] = <<"4", "2">>
    /\ row.printed[5] = NotAvailable

====
